---- MODULE Spec2Model ----
(***************************************************************************)
(* Model of tiny-audio-player's playback core:                             *)
(*   - MainLayout (src/src/layouts/main_layout.rs): the tracklist, the     *)
(*     current track index and the message handler `update`;               *)
(*   - AudioPlayer / CurrentSoundData (src/src/audio/audio_player.rs): the *)
(*     current sound, playback rate, volume, and the wave-calculation      *)
(*     thread each sound spawns and joins when dropped;                    *)
(*   - ProcessMessageListener / ApplicationState (src/src/app): the UDP    *)
(*     socket a second process hands its path argument to, and the tick    *)
(*     that imports what was received.                                     *)
(*                                                                         *)
(* Threads: the UI thread (runs `update`; blocked inside a handler only    *)
(* while it joins a wave thread) and one wave thread per live sound.       *)
(* Option<T> values are modelled as sets with at most one element.         *)
(* Floating point seconds are modelled in hundredths of a second, rates    *)
(* and volumes in hundredths.                                              *)
(***************************************************************************)
EXTENDS Integers, Sequences, FiniteSets, TLC

\* ------------------------------------------------------------------ bounds
MaxTracks == 3          \* longest tracklist explored
MaxImport == 1          \* most paths handed to one AddMusic / OpenTracklist
MaxSounds == 3          \* sound objects that can exist at once (current, the
                        \* one being created, one still referenced by a reader)
MaxProcesses == 3       \* processes of the program started on one machine

\* ------------------------------------------------------- program constants
sample_count_to_average == 50   \* audio_player.rs:138
U8_MAX == 255                   \* u8::MAX, audio_player.rs:213
DefaultRate == 100              \* playback_rate: 1.0, audio_player.rs:252
DefaultVolume == 100            \* volume: 1.0, audio_player.rs:253
AdvanceEpsilon == 1             \* + 0.01, main_layout.rs:297
MAX_MESSAGE_SIZE == 1500        \* process_message_listener.rs:8

\* ------------------------------------------------------------------ inputs
\* Paths the user can hand to the importer.  Extension and is_file are facts
\* of the path; only the first two pass the import filter.
AllPaths == {"a.mp3", "b.ogg", "c.txt", "dir.wav", "noext"}

\* Paths whose extension or file stem is not valid Unicode ("0xFF" stands for
\* such an OsStr): the file dialog and a file drop can yield them.
NonUnicodePaths == {"x.0xFF", "0xFF.mp3"}

Extension(path) ==
    CASE path = "a.mp3"    -> {"mp3"}
      [] path = "b.ogg"    -> {"ogg"}
      [] path = "c.txt"    -> {"txt"}
      [] path = "dir.wav"  -> {"wav"}
      [] path = "x.0xFF"   -> {"0xFF"}
      [] path = "0xFF.mp3" -> {"mp3"}
      [] OTHER             -> {}

\* Path::file_stem of the paths above.
FileStem(path) ==
    CASE path = "a.mp3"    -> "a"
      [] path = "b.ogg"    -> "b"
      [] path = "c.txt"    -> "c"
      [] path = "dir.wav"  -> "dir"
      [] path = "x.0xFF"   -> "x"
      [] path = "0xFF.mp3" -> "0xFF"
      [] OTHER             -> path

\* OsStr::to_str: None when the string is not valid Unicode.
ToStr(os_str) == IF os_str = "0xFF" THEN {} ELSE {os_str}

IsFile(path) == path # "dir.wav"

\* Whole seconds reported by StreamingSoundData::duration().as_secs().
DurationSecs(path) == IF path = "b.ogg" THEN 0 ELSE 1

Rates   == {DefaultRate, 130}
Volumes == {DefaultVolume, 50}
Portions == {0, 99}             \* slider click position, in hundredths

\* Positions the output collaborator's clock is observed at (hundredths of s).
ClockPositions(duration) ==
    {p \in {0, duration * 100 - 2, duration * 100 - 1} : p >= 0}

\* Audio files as the codec/demux collaborator presents them to the wave
\* thread: the outcome of open/probe/track/decoder set-up, the packets in
\* order, and how next_packet ends after the last packet.
Rep(x, n) == [i \in 1..n |-> x]

FileTable == <<
    [open |-> "ok",        packets |-> <<"ok_lo">>,               end |-> "eof"],
    [open |-> "open_err",  packets |-> <<>>,                      end |-> "eof"],
    [open |-> "ok",        packets |-> <<"dec_decode", "ok_hi">>, end |-> "reset"],
    [open |-> "probe_err", packets |-> <<>>,                      end |-> "eof"],
    [open |-> "ok",        packets |-> <<"other_track">>,         end |-> "io_err"],
    [open |-> "ok",        packets |-> <<"dec_fatal", "ok_lo">>,  end |-> "eof"],
    [open |-> "ok",
     packets |-> Rep("ok_hi", sample_count_to_average) \o <<"ok_lo">>,
     end |-> "eof"],
    [open |-> "ok",
     packets |-> Rep("ok_lo", sample_count_to_average - 1)
                 \o <<"dec_io", "ok_lo", "ok_lo">>,
     end |-> "other_err"],
    [open |-> "open_err",  packets |-> <<>>,                      end |-> "eof"] >>

ShortFiles == {2, 3}
LongFiles  == {7, 8}

\* Files StreamingSoundData::from_file or audio_manager.play rejects.
UnplayableFiles == {9}

\* Mean absolute sample value of a decoded packet, in thousandths.
PacketMean(kind) == IF kind = "ok_hi" THEN 700 ELSE 100

VARIABLES
    tracklist,            \* MainLayout.tracklist: sequence of paths
    current_track_index,  \* MainLayout.current_track_index: {} or {i}, 0-based
    current_sound,        \* AudioPlayer.current_sound: {} or {sound id}
    playback_rate,        \* AudioPlayer.playback_rate
    volume,               \* AudioPlayer.volume
    main_track_volume,    \* volume of the audio manager's main track
    sounds,               \* the CurrentSoundData objects, by id
    ui_pc,                \* "idle", "join" while a handler joins a thread, or
                          \* "panicked" once the UI thread has panicked
    ui_cont,              \* what the blocked handler does after the join
    reader_wave,          \* wave Arc held by the track position widget
    fs,                   \* files the paths can hold (fixed per behaviour)
    last_msg,             \* history: the message `update` handled last
    port_owner,           \* the process bound to 127.0.0.1:61313: {} or {p}
    socket_buf,           \* datagrams waiting in that socket, oldest first
    procs                 \* each process of the program: "absent" (not
                          \* started), "listening" or "exited"

\* The listener socket and the processes around it.
net == <<port_owner, socket_buf, procs>>

vars == <<tracklist, current_track_index, current_sound, playback_rate, volume,
          main_track_volume, sounds, ui_pc, ui_cont, reader_wave, fs, last_msg,
          port_owner, socket_buf, procs>>

SoundIds == 1..MaxSounds

\* A sound id that holds no object.
FreeSound ==
    [life |-> "free", path |-> "", duration |-> 0,
     hstate |-> "Stopped", hrate |-> DefaultRate, hpos |-> 0,
     wave |-> <<>>, stop_wave_calc_signal |-> FALSE,
     th |-> "none", file |-> 0, fpos |-> 0, nsamples |-> 0, acc |-> 0]

NoCont == [op |-> "none", idx |-> 0, path |-> "", new |-> 0, paths |-> <<>>]

\* TrackInfo at a 0-based index.
TrackAt(list, i) == list[i + 1]

Indices(list) == 0 .. (Len(list) - 1)

\* Vec::remove(i), 0-based.
RemoveAt(list, i) == [j \in 1..(Len(list) - 1) |-> IF j <= i THEN list[j] ELSE list[j + 1]]

\* ------------------------------------------------------------ AudioPlayer

\* At most MaxSounds sound objects and buffers exist at once.
HasFree(snds) == \E s \in SoundIds : snds[s].life = "free"

\* The id the next CurrentSoundData object gets: the lowest unused one.
AllocIn(snds) ==
    CHOOSE s \in SoundIds :
        /\ snds[s].life = "free"
        /\ \A t \in SoundIds : snds[t].life = "free" => s <= t

\* Mutant: the new sound is given the wave of the sound it replaces.
NewSound_keeps_wave(path) ==
    [life |-> "alive", path |-> path, duration |-> DurationSecs(path),
     hstate |-> "Playing", hrate |-> DefaultRate, hpos |-> 0,
     wave |-> IF current_sound = {} THEN <<>>
              ELSE sounds[CHOOSE s \in current_sound : TRUE].wave,
     stop_wave_calc_signal |-> FALSE,
     th |-> "open", file |-> 0, fpos |-> 0, nsamples |-> 0, acc |-> 0]

\* Mutant: the new handle starts where the current sound stands.
NewSound_resumed(path) ==
    [life |-> "alive", path |-> path, duration |-> DurationSecs(path),
     hstate |-> "Playing", hrate |-> DefaultRate,
     hpos |-> IF current_sound = {} THEN 0
              ELSE sounds[CHOOSE s \in current_sound : TRUE].hpos,
     wave |-> <<>>, stop_wave_calc_signal |-> FALSE,
     th |-> "open", file |-> 0, fpos |-> 0, nsamples |-> 0, acc |-> 0]

\* audio_manager.play + CurrentSoundData::new: a handle playing from the start
\* at the collaborator's default rate, an empty wave, a cleared stop signal and
\* a spawned wave thread that has not run yet.
NewSound(path) ==
    [life |-> "alive", path |-> path, duration |-> DurationSecs(path),
     hstate |-> "Playing", hrate |-> DefaultRate, hpos |-> 0,
     wave |-> <<>>, stop_wave_calc_signal |-> FALSE,
     th |-> "open", file |-> 0, fpos |-> 0, nsamples |-> 0, acc |-> 0]

\* handle.stop(..) followed by the first statement of Drop: the stop signal
\* is stored; the join that follows blocks the UI thread.
StopAndSignal(snd) ==
    [snd EXCEPT !.hstate = "Stopped", !.stop_wave_calc_signal = TRUE]

\* A wave thread that has been spawned and has not ended.
Running(snd) == snd.th \in {"open", "check", "packet"}

\* Mutant: the thread is detached instead of joined.
Joined_detached(snd) == TRUE

\* JoinHandle::join in Drop returns once the thread has ended.
Joined(snd) == ~Running(snd)

\* Mutant: Drop empties the wave buffer it shares with the widget.
Dropped_cleared(snds, s) ==
    [snds EXCEPT ![s] =
        IF s \in reader_wave \/ Running(snds[s])
        THEN [FreeSound EXCEPT !.life = "dead"]
        ELSE FreeSound]

\* Mutant: the old sound is never dropped.
Dropped_kept(snds, s) == snds

\* The end of Drop for sound s: the object and its handle are gone.  The wave
\* buffer and the stop signal are reference counted: they live on ("dead")
\* while the widget or a thread that has not ended still holds an Arc.
Dropped(snds, s) ==
    [snds EXCEPT ![s] =
        IF s \in reader_wave \/ Running(snds[s])
        THEN [snds[s] EXCEPT !.life = "dead", !.path = "", !.duration = 0,
                             !.hstate = "Stopped", !.hrate = DefaultRate,
                             !.hpos = 0,
                             !.stop_wave_calc_signal = @ /\ Running(snds[s])]
        ELSE FreeSound]

\* handle.set_playback_rate(rate) on one sound.
ApplyRate(snd, rate) == [snd EXCEPT !.hrate = rate]

\* Mutant: set_playback_rate only stores the rate.
SetRateOnCurrent_stored_only(snds, cur, rate) == snds

\* AudioPlayer::set_playback_rate applied to whatever sound is current.
SetRateOnCurrent(snds, cur, rate) ==
    [s \in SoundIds |-> IF s \in cur THEN ApplyRate(snds[s], rate) ELSE snds[s]]

\* Mutant: play() leaves the new handle at the collaborator's default rate.
PlayReapplyRate_skip(snd) == snd

\* Last statement of AudioPlayer::play: self.set_playback_rate(self.playback_rate)
\* on the sound that has just become current.
PlayReapplyRate(snd) == ApplyRate(snd, playback_rate)

\* from_file or audio_manager.play can return Err for a file of this kind.
PlayCanFail == fs \cap UnplayableFiles # {}

\* Mutant: a failed play is swallowed and the handler returns normally.
PlayErr_swallowed(snds) ==
    /\ sounds' = snds
    /\ current_sound' = current_sound
    /\ ui_pc' = "idle"
    /\ ui_cont' = NoCont

\* The Err arms of AudioPlayer::play: an alert is shown and the UI thread
\* panics.  `snds` are the sounds at that point (the old handle, if any, is
\* already stopped); current_sound has not been assigned.
PlayErr(snds) ==
    /\ sounds' = snds
    /\ current_sound' = current_sound
    /\ ui_pc' = "panicked"
    /\ ui_cont' = NoCont

\* AudioPlayer::play with no current sound: nothing to stop or drop.
PlayFresh(path) ==
    LET n == AllocIn(sounds) IN
    \/ /\ HasFree(sounds)
       /\ sounds' = [sounds EXCEPT ![n] = PlayReapplyRate(NewSound(path))]
       /\ current_sound' = {n}
       /\ ui_pc' = "idle"
       /\ ui_cont' = NoCont
    \/ /\ PlayCanFail
       /\ PlayErr(sounds)

\* AudioPlayer::play with a current sound: the old handle is stopped, the new
\* CurrentSoundData is built (its thread spawned) as the right-hand side of
\* the assignment, and only then the assignment drops the old value: the stop
\* signal is stored and the UI thread joins the old thread.
PlayReplaceBegin(path) ==
    LET n == AllocIn(sounds) IN
    \/ /\ HasFree(sounds)
       /\ \E old \in current_sound :
            sounds' = [sounds EXCEPT ![old] = StopAndSignal(@), ![n] = NewSound(path)]
       /\ current_sound' = current_sound
       /\ ui_pc' = "join"
       /\ ui_cont' = [NoCont EXCEPT !.op = "install", !.new = n]
    \/ /\ PlayCanFail
       /\ \E old \in current_sound :
            PlayErr([sounds EXCEPT ![old].hstate = "Stopped"])

Play(path) ==
    IF current_sound = {} THEN PlayFresh(path) ELSE PlayReplaceBegin(path)

\* AudioPlayer::stop with a current sound, up to the join inside Drop; `cont`
\* names the rest of the handler.
StopBegin(cont) ==
    /\ \E old \in current_sound :
         sounds' = [sounds EXCEPT ![old] = StopAndSignal(@)]
    /\ current_sound' = current_sound
    /\ ui_pc' = "join"
    /\ ui_cont' = cont

\* AudioPlayer::get_current_sound_position, in hundredths of a second.
CurrentSoundPosition ==
    IF current_sound = {} THEN 0
    ELSE sounds[CHOOSE s \in current_sound : TRUE].hpos

\* AudioPlayer::get_current_sound_duration, in hundredths of a second.
CurrentSoundDuration ==
    IF current_sound = {} THEN 0
    ELSE sounds[CHOOSE s \in current_sound : TRUE].duration * 100

\* Mutant: pause_resume always pauses.
PauseResume_pause_only(snd) == [snd EXCEPT !.hstate = "Paused"]

\* AudioPlayer::pause_resume on the handle of one sound.
PauseResume(snd) ==
    IF snd.hstate = "Paused"
    THEN [snd EXCEPT !.hstate = "Playing"]
    ELSE [snd EXCEPT !.hstate = "Paused"]

is_format_supported(extension) ==
    extension = "mp3" \/ extension = "wav" \/ extension = "ogg" \/ extension = "flac"

\* ------------------------------------------------------------- MainLayout

\* MainLayout::try_importing_track_from_path on a tracklist value.
ImportOne(list, path) ==
    IF ~IsFile(path) THEN list
    ELSE IF Extension(path) = {} THEN list
    ELSE IF ~(\E e \in Extension(path) : is_format_supported(e)) THEN list
    ELSE Append(list, path)

\* Mutant: to_str never fails (a lossy conversion is used).
ImportPanics_lossy(path) == FALSE

\* try_importing_track_from_path panics: file_extension.to_str().unwrap() on a
\* non-Unicode extension, or file_stem().unwrap().to_str().unwrap() on a
\* non-Unicode stem of a path that passed the filter.
ImportPanics(path) ==
    /\ IsFile(path)
    /\ Extension(path) # {}
    /\ \/ \E e \in Extension(path) : ToStr(e) = {}
       \/ /\ \E e \in Extension(path) : is_format_supported(e)
          /\ ToStr(FileStem(path)) = {}

RECURSIVE ImportAll(_, _)
ImportAll(list, paths) ==
    IF paths = <<>> THEN list
    ELSE ImportAll(ImportOne(list, Head(paths)), Tail(paths))

\* Sequences of at most MaxImport paths: what a dialog or a tracklist file yields.
PathLists == UNION {[1..n -> AllPaths] : n \in 0..MaxImport}

\* The same with the non-Unicode paths a dialog or a drop can also yield (a
\* tracklist file holds Strings and cannot).
RawPathLists == UNION {[1..n -> AllPaths \cup NonUnicodePaths] : n \in 0..MaxImport}

\* Mutant: the index is kept when the current track is deleted.
DeleteClearIndex_never(cti, track_index) == cti

\* DeleteTrack, "Clear current index if this is the track being played".
DeleteClearIndex(cti, track_index) ==
    IF cti = {track_index} THEN {} ELSE cti

\* Mutant: no renormalization after the removal.
DeleteRenormalize_keep(cti, newlen) == cti

\* Mutant: every removal shifts the current index down.
DeleteRenormalize_always(cti, newlen) ==
    {IF index > 0 THEN index - 1 ELSE index : index \in cti}

\* DeleteTrack, "Update current index": runs after the entry was removed.
DeleteRenormalize(cti, newlen) ==
    {IF index >= newlen THEN index - 1 ELSE index : index \in cti}

\* Mutant: no wraparound, the last track is played again.
NextTrackIndex_stay(track_index, len) ==
    IF track_index + 1 = len THEN track_index ELSE track_index + 1

\* RedrawTrackPos, "Switch to the next track".
NextTrackIndex(track_index, len) ==
    IF track_index + 1 = len THEN 0 ELSE track_index + 1

\* Mutant: the end-of-track test with twice the slack.
AdvanceDue_early ==
    CurrentSoundPosition + AdvanceEpsilon + AdvanceEpsilon >= CurrentSoundDuration

\* RedrawTrackPos, the end-of-track test.
AdvanceDue == CurrentSoundPosition + AdvanceEpsilon >= CurrentSoundDuration

\* Mutant: a handler may start while another one is blocked in a join.
UiIdle_reentrant == ui_pc # "panicked"

\* `update` takes &mut self on the one UI thread: a handler starts only when
\* no handler is running.
UiIdle == ui_pc = "idle"

\* History of the handler: the message and how its index argument stood to
\* the current track index when it arrived ("lt": below it, "eq", "gt",
\* "none": no current track).
Rel(track_index) ==
    IF current_track_index = {} THEN "none"
    ELSE IF current_track_index = {track_index} THEN "eq"
    ELSE IF \E c \in current_track_index : track_index < c THEN "lt"
    ELSE "gt"

Handled(msg, rel) == last_msg' = [msg |-> msg, rel |-> rel]

\* Mutant: a handler puts the playback rate back to its default.
PlayerKnobsUnchanged_reset ==
    /\ playback_rate' = DefaultRate
    /\ UNCHANGED <<volume, main_track_volume>>

PlayerKnobsUnchanged == UNCHANGED <<playback_rate, volume, main_track_volume>>

VolumeChanged(new_volume) ==
    /\ UiIdle
    /\ Handled("VolumeChanged", "-")
    /\ volume' = new_volume
    /\ main_track_volume' = new_volume
    /\ UNCHANGED <<tracklist, current_track_index, current_sound, playback_rate,
                   sounds, ui_pc, ui_cont, reader_wave, fs, net>>

PlaybackRateChanged(new_rate) ==
    /\ UiIdle
    /\ Handled("PlaybackRateChanged", "-")
    /\ playback_rate' = new_rate
    /\ sounds' = SetRateOnCurrent(sounds, current_sound, new_rate)
    /\ UNCHANGED <<tracklist, current_track_index, current_sound, volume,
                   main_track_volume, ui_pc, ui_cont, reader_wave, fs, net>>

\* Indices a message can carry: those of the entries shown, and one past them.
MessageIndices == 0 .. Len(tracklist)

\* Mutant: an index past the end of the tracklist is ignored.
IndexPanic_ignored ==
    /\ ui_pc' = "idle"
    /\ ui_cont' = NoCont
    /\ UNCHANGED <<current_sound, sounds>>

\* self.tracklist[track_index] or self.tracklist.remove(track_index) with an
\* index past the end: the UI thread panics where it stands.
IndexPanic ==
    /\ ui_pc' = "panicked"
    /\ ui_cont' = NoCont
    /\ UNCHANGED <<current_sound, sounds>>

\* stop() followed by a statement that panics on the index.
StopThenIndexPanic ==
    IF current_sound = {} THEN IndexPanic
    ELSE StopBegin([NoCont EXCEPT !.op = "panic"])

\* Mutant: the restart calls play() without the stop() before it.
RestartTrack_replace(path) == Play(path)

\* PlayTrackFromStart, "Just restart": stop(), then play(path).  With a
\* current sound the handler first waits in the join of stop()'s Drop.
RestartTrack(path) ==
    IF current_sound = {}
    THEN PlayFresh(path)
    ELSE StopBegin([NoCont EXCEPT !.op = "restart", !.path = path])

PlayTrackFromStart(track_index) ==
    /\ UiIdle
    /\ Handled("PlayTrackFromStart", Rel(track_index))
    /\ IF track_index \in Indices(tracklist)
       THEN IF current_track_index = {track_index}
            THEN /\ RestartTrack(TrackAt(tracklist, track_index))
                 /\ UNCHANGED current_track_index
            ELSE /\ current_track_index' = {track_index}
                 /\ Play(TrackAt(tracklist, track_index))
       ELSE IF current_track_index = {track_index}
            THEN /\ StopThenIndexPanic
                 /\ UNCHANGED current_track_index
            ELSE \* The index is stored, then the path is looked up.
                 /\ current_track_index' = {track_index}
                 /\ IndexPanic
    /\ PlayerKnobsUnchanged
    /\ UNCHANGED <<tracklist, reader_wave, fs, net>>

PlayPauseTrack(track_index) ==
    /\ UiIdle
    /\ Handled("PlayPauseTrack", Rel(track_index))
    /\ IF current_track_index = {track_index}
       THEN /\ sounds' = [s \in SoundIds |->
                            IF s \in current_sound THEN PauseResume(sounds[s])
                            ELSE sounds[s]]
            /\ UNCHANGED <<current_track_index, current_sound, ui_pc, ui_cont>>
       ELSE /\ current_track_index' = {track_index}
            /\ IF track_index \in Indices(tracklist)
               THEN Play(TrackAt(tracklist, track_index))
               ELSE IndexPanic
    /\ PlayerKnobsUnchanged
    /\ UNCHANGED <<tracklist, reader_wave, fs, net>>

\* Mutant: DeleteTrack stops the player whenever a track is current.
IsTrackBeingPlayed_any(track_index) == current_track_index # {}

\* DeleteTrack, the test "if this is the track being played".
IsTrackBeingPlayed(track_index) == current_track_index = {track_index}

DeleteTrack(track_index) ==
    /\ UiIdle
    /\ Handled("DeleteTrack", Rel(track_index))
    /\ IF track_index \notin Indices(tracklist)
       THEN \* Vec::remove panics, after the index was cleared and stop() ran.
            /\ current_track_index' = DeleteClearIndex(current_track_index, track_index)
            /\ IF IsTrackBeingPlayed(track_index)
               THEN StopThenIndexPanic ELSE IndexPanic
            /\ UNCHANGED tracklist
       ELSE IF IsTrackBeingPlayed(track_index) /\ current_sound # {}
       THEN \* The track being played: index cleared, stop() begins.
            /\ current_track_index' = DeleteClearIndex(current_track_index, track_index)
            /\ StopBegin([NoCont EXCEPT !.op = "delete", !.idx = track_index])
            /\ UNCHANGED tracklist
       ELSE LET cleared == DeleteClearIndex(current_track_index, track_index)
                list == RemoveAt(tracklist, track_index)
            IN /\ tracklist' = list
               /\ current_track_index' = DeleteRenormalize(cleared, Len(list))
               /\ UNCHANGED <<current_sound, sounds, ui_pc, ui_cont>>
    /\ PlayerKnobsUnchanged
    /\ UNCHANGED <<reader_wave, fs, net>>

\* ChangeTrackPos: seek to portion * duration (no-op without a sound).
ChangeTrackPos(portion) ==
    /\ UiIdle
    /\ Handled("ChangeTrackPos", "-")
    /\ sounds' = [s \in SoundIds |->
                    IF s \in current_sound
                    THEN [sounds[s] EXCEPT !.hpos = (portion * CurrentSoundDuration) \div 100]
                    ELSE sounds[s]]
    /\ PlayerKnobsUnchanged
    /\ UNCHANGED <<tracklist, current_track_index, current_sound, ui_pc, ui_cont,
                   reader_wave, fs, net>>

RedrawTrackPos ==
    /\ UiIdle
    /\ Handled("RedrawTrackPos",
               IF current_track_index = {} THEN "idle"
               ELSE IF AdvanceDue THEN "due" ELSE "early")
    /\ IF current_track_index # {} /\ AdvanceDue
       THEN \E cur \in current_track_index :
              LET track_index == NextTrackIndex(cur, Len(tracklist)) IN
              /\ current_track_index' = {track_index}
              /\ Play(TrackAt(tracklist, track_index))
       ELSE UNCHANGED <<current_track_index, current_sound, sounds, ui_pc, ui_cont>>
    /\ PlayerKnobsUnchanged
    /\ UNCHANGED <<tracklist, reader_wave, fs, net>>

\* AddMusic (the paths the dialog returned), FileDropped (one path) and the
\* paths the process message listener hands over all import path by path.
\* The loop stops at the first path whose import panics.
AddMusic(paths) ==
    LET bad == {k \in 1..Len(paths) : ImportPanics(paths[k])}
        first == CHOOSE k \in bad : \A j \in bad : k <= j
        done == IF bad = {} THEN paths ELSE SubSeq(paths, 1, first - 1)
    IN
    /\ UiIdle
    /\ Handled("AddMusic", "-")
    /\ Len(ImportAll(tracklist, done)) <= MaxTracks
    /\ tracklist' = ImportAll(tracklist, done)
    /\ ui_pc' = IF bad = {} THEN "idle" ELSE "panicked"
    /\ PlayerKnobsUnchanged
    /\ UNCHANGED <<current_track_index, current_sound, sounds, ui_cont,
                   reader_wave, fs, net>>

\* Mutant: clear_tracklist leaves the entries in place.
ClearedTracklist_kept(list) == list

\* clear_tracklist, self.tracklist.clear().
ClearedTracklist(list) == <<>>

\* OpenTracklist with a chosen file holding `paths`: clear_tracklist, then
\* import.  clear_tracklist starts with stop(); while the handler is blocked
\* in it, the list the handler will end with is remembered.
OpenTracklist(paths) ==
    LET list == ImportAll(ClearedTracklist(tracklist), paths) IN
    /\ UiIdle
    /\ Handled("OpenTracklist", "-")
    /\ Len(ImportAll(<<>>, paths)) <= MaxTracks
    /\ IF current_sound # {}
       THEN /\ StopBegin([NoCont EXCEPT !.op = "clear", !.paths = list])
            /\ UNCHANGED <<tracklist, current_track_index>>
       ELSE /\ current_track_index' = {}
            /\ tracklist' = list
            /\ UNCHANGED <<current_sound, sounds, ui_pc, ui_cont>>
    /\ PlayerKnobsUnchanged
    /\ UNCHANGED <<reader_wave, fs, net>>

\* Mutant: stop() unwraps current_sound without the is_none test.
StopNoSound_unwrap ==
    /\ ui_pc' = "panicked"
    /\ UNCHANGED <<current_sound, sounds, ui_cont>>

\* AudioPlayer::stop, "Quit if no sound".
StopNoSound == UNCHANGED <<current_sound, sounds, ui_pc, ui_cont>>

\* ---- reordering (the operation is not in src/: modelled from spec.md 4.3)

\* Mutant: no wraparound, an entry at an end stays where it is.
MoveTarget_clamped(i, len, dir) ==
    IF dir = "up" THEN (IF i = 0 THEN i ELSE i - 1)
    ELSE (IF i = len - 1 THEN i ELSE i + 1)

\* The index entry i is swapped with: its upper or lower neighbour, the other
\* end of the list at the ends.
MoveTarget(i, len, dir) ==
    IF dir = "up" THEN (IF i = 0 THEN len - 1 ELSE i - 1)
    ELSE (IF i = len - 1 THEN 0 ELSE i + 1)

SwapEntries(list, i, j) ==
    [list EXCEPT ![i + 1] = list[j + 1], ![j + 1] = list[i + 1]]

\* Mutant: the current index is left where it was.
MoveIndex_stale(cti, i, j) == cti

\* The current index follows its entry: from i to j, from j to i.
MoveIndex(cti, i, j) ==
    {IF c = i THEN j ELSE IF c = j THEN i ELSE c : c \in cti}

\* move_up(i) / move_down(i): no-op on a list of at most one entry.
MoveTrack(i, dir) ==
    LET j == MoveTarget(i, Len(tracklist), dir) IN
    /\ UiIdle
    /\ Handled(IF dir = "up" THEN "MoveTrackUp" ELSE "MoveTrackDown", Rel(i))
    /\ i \in Indices(tracklist)
    /\ IF Len(tracklist) <= 1
       THEN UNCHANGED <<tracklist, current_track_index>>
       ELSE /\ tracklist' = SwapEntries(tracklist, i, j)
            /\ current_track_index' = MoveIndex(current_track_index, i, j)
    /\ PlayerKnobsUnchanged
    /\ UNCHANGED <<current_sound, sounds, ui_pc, ui_cont, reader_wave, fs, net>>

\* AudioPlayer::stop called on its own.
Stop ==
    /\ UiIdle
    /\ Handled("stop", IF current_sound = {} THEN "none" ELSE "sound")
    /\ IF current_sound = {}
       THEN StopNoSound
       ELSE StopBegin([NoCont EXCEPT !.op = "stop"])
    /\ PlayerKnobsUnchanged
    /\ UNCHANGED <<tracklist, current_track_index, reader_wave, fs, net>>

\* Mutant: get_volume answers the default instead of the stored value.
get_volume_default == DefaultVolume

get_volume == volume

get_playback_rate == playback_rate

\* The getters of AudioPlayer called in a row; the history keeps what each
\* returned.
Getters ==
    /\ UiIdle
    /\ last_msg' = [msg |-> "getters", rel |-> "-",
                    position |-> CurrentSoundPosition,
                    duration |-> CurrentSoundDuration,
                    rate |-> get_playback_rate,
                    volume |-> get_volume]
    /\ UNCHANGED <<tracklist, current_track_index, current_sound, playback_rate,
                   volume, main_track_volume, sounds, ui_pc, ui_cont,
                   reader_wave, fs, net>>

\* The join inside Drop returns (the old sound's thread has terminated) and
\* the blocked handler runs to its end.
JoinDone ==
    /\ ui_pc = "join"
    /\ \E old \in current_sound :
         /\ Joined(sounds[old])
         /\ LET dropped == Dropped(sounds, old) IN
            CASE ui_cont.op = "install" ->
                   \* play(): the assignment completes, then the rate is set.
                   /\ sounds' = [dropped EXCEPT ![ui_cont.new] = PlayReapplyRate(@)]
                   /\ current_sound' = {ui_cont.new}
                   /\ UNCHANGED <<tracklist, current_track_index>>
              [] ui_cont.op = "restart" ->
                   \* stop() returned with current_sound = None; play(path).
                   LET n == AllocIn(sounds) IN
                   /\ \/ /\ HasFree(sounds)
                         /\ sounds' = [dropped EXCEPT
                                         ![n] = PlayReapplyRate(NewSound(ui_cont.path))]
                         /\ current_sound' = {n}
                      \/ /\ PlayCanFail
                         /\ sounds' = dropped
                         /\ current_sound' = {}
                   /\ UNCHANGED <<tracklist, current_track_index>>
              [] ui_cont.op \in {"stop", "panic"} ->
                   \* stop() returned; the caller goes on (or panics).
                   /\ sounds' = dropped
                   /\ current_sound' = {}
                   /\ UNCHANGED <<tracklist, current_track_index>>
              [] ui_cont.op = "delete" ->
                   LET list == RemoveAt(tracklist, ui_cont.idx) IN
                   /\ sounds' = dropped
                   /\ current_sound' = {}
                   /\ tracklist' = list
                   /\ current_track_index' = DeleteRenormalize(current_track_index, Len(list))
              [] ui_cont.op = "clear" ->
                   /\ sounds' = dropped
                   /\ current_sound' = {}
                   /\ current_track_index' = {}
                   /\ tracklist' = ImportAll(<<>>, ui_cont.paths)
    /\ ui_pc' = IF \/ ui_cont.op = "panic"
                   \/ ui_cont.op = "restart" /\ current_sound' = {}
                THEN "panicked" ELSE "idle"
    /\ ui_cont' = NoCont
    /\ PlayerKnobsUnchanged
    /\ UNCHANGED <<reader_wave, fs, net, last_msg>>

\* ------------------------------------------------- environment of the player

\* The output collaborator's clock: the playing handle's position moves on.
PlaybackClock ==
    /\ \E s \in current_sound :
         /\ sounds[s].hstate = "Playing"
         /\ \E p \in ClockPositions(sounds[s].duration) :
              /\ p > sounds[s].hpos
              /\ sounds' = [sounds EXCEPT ![s].hpos = p]
    /\ UNCHANGED <<tracklist, current_track_index, current_sound, playback_rate,
                   volume, main_track_volume, ui_pc, ui_cont, reader_wave, fs, net,
                   last_msg>>

\* MainLayout::view hands get_current_sound_wave() to a new TrackPosSlider:
\* the widget's previous Arc is released (a buffer whose sound is gone is
\* freed with it) and the current sound's wave is cloned; with no sound the
\* widget gets a buffer of its own, which is never written.
View ==
    /\ UiIdle
    /\ UNCHANGED last_msg
    /\ reader_wave # current_sound
    /\ reader_wave' = current_sound
    /\ sounds' = [s \in SoundIds |->
                    IF s \in reader_wave /\ sounds[s].life = "dead"
                       /\ ~Running(sounds[s])
                    THEN FreeSound ELSE sounds[s]]
    /\ UNCHANGED <<tracklist, current_track_index, current_sound, playback_rate,
                   volume, main_track_volume, ui_pc, ui_cont, fs, net>>

\* ------------------------------------------------------- the wave thread
\* AudioPlayer::try_generating_wave_for_sound, run by the thread of sound s.

\* (average_value * 2.0 * u8::MAX as f32) as u8, for a window whose values sum
\* to `sum` thousandths: the float-to-u8 cast truncates and saturates.
WaveByte(sum, count) ==
    LET v == (sum * 2 * U8_MAX) \div (count * 1000) IN
    IF v > U8_MAX THEN U8_MAX ELSE v

\* Mutant: the window is averaged one value late.
PushSample_late(snd, mean) ==
    LET n == snd.nsamples + 1
        sum == snd.acc + mean
    IN IF n > sample_count_to_average
       THEN [snd EXCEPT !.nsamples = 0, !.acc = 0,
                        !.wave = Append(@, 0)]
       ELSE [snd EXCEPT !.nsamples = n, !.acc = sum]

\* samples_to_average.push(mean_value) and, once the window is full, the
\* average, the clear and the push onto the shared wave.
PushSample(snd, mean) ==
    LET n == snd.nsamples + 1
        sum == snd.acc + mean
    IN IF n >= sample_count_to_average
       THEN [snd EXCEPT !.nsamples = 0, !.acc = 0,
                        !.wave = Append(@, WaveByte(sum, n))]
       ELSE [snd EXCEPT !.nsamples = n, !.acc = sum]

\* Mutant: a thread that ends flushes its partial window to the wave.
ThreadEnd_flush(snd) ==
    [snd EXCEPT !.th = "done", !.file = 0, !.fpos = 0, !.nsamples = 0, !.acc = 0,
                !.wave = IF snd.nsamples > 0 THEN Append(@, 0) ELSE @]

\* Mutant: a thread that ends also stops the sound's handle.
ThreadEnd_stops_handle(snd) ==
    [snd EXCEPT !.th = "done", !.file = 0, !.fpos = 0, !.nsamples = 0, !.acc = 0,
                !.hstate = "Stopped"]

\* The function returns (or panics): the thread ends and its locals are gone,
\* and with them its Arc to the wave.
ThreadEnd(snd) ==
    [snd EXCEPT !.th = "done", !.file = 0, !.fpos = 0, !.nsamples = 0, !.acc = 0]

\* The sounds after the thread of sound s took a step to `next`: a buffer
\* nobody references any more is freed.
ThreadStep(s, next) ==
    [sounds EXCEPT ![s] =
        IF next.life = "dead" /\ ~Running(next) /\ s \notin reader_wave
        THEN FreeSound ELSE next]

\* Opening the file, probing, finding the track, making the decoder.  Every
\* failure leaves the function (a failed probe panics the thread).
WaveOpen(s) ==
    /\ sounds[s].th = "open"
    /\ \E f \in fs :
         sounds' = ThreadStep(s,
                      IF FileTable[f].open = "ok"
                      THEN [sounds[s] EXCEPT !.th = "check", !.file = f]
                      ELSE ThreadEnd(sounds[s]))
    /\ UNCHANGED <<tracklist, current_track_index, current_sound, playback_rate,
                   volume, main_track_volume, ui_pc, ui_cont, reader_wave, fs, net,
                   last_msg>>

\* Mutant: the loop never looks at the stop signal.
WaveCheckStop_deaf(s) ==
    /\ sounds[s].th = "check"
    /\ sounds' = ThreadStep(s, [sounds[s] EXCEPT !.th = "packet"])
    /\ UNCHANGED <<tracklist, current_track_index, current_sound, playback_rate,
                   volume, main_track_volume, ui_pc, ui_cont, reader_wave, fs, net,
                   last_msg>>

\* Top of the decode loop: the stop signal is read.
WaveCheckStop(s) ==
    /\ sounds[s].th = "check"
    /\ sounds' = ThreadStep(s,
                    IF sounds[s].stop_wave_calc_signal
                    THEN ThreadEnd(sounds[s]) ELSE [sounds[s] EXCEPT !.th = "packet"])
    /\ UNCHANGED <<tracklist, current_track_index, current_sound, playback_rate,
                   volume, main_track_volume, ui_pc, ui_cont, reader_wave, fs, net,
                   last_msg>>

\* Mutant: only packets of other tracks are skipped; a packet that fails to
\* decode is handled like a decoded one.
SkippedPacket_strict(kind) == kind = "other_track"

\* Packets the loop `continue`s on: those of another track and those whose
\* decode fails with IoError or DecodeError.
SkippedPacket(kind) == kind \in {"other_track", "dec_io", "dec_decode"}

\* This iteration ends in the push onto the shared wave: a packet of the
\* selected track decodes and fills the averaging window.
WavePushes(s) ==
    LET file == FileTable[sounds[s].file]
        snd == sounds[s]
    IN /\ snd.fpos < Len(file.packets)
       /\ ~SkippedPacket(file.packets[snd.fpos + 1])
       /\ file.packets[snd.fpos + 1] # "dec_fatal"
       /\ snd.nsamples + 1 >= sample_count_to_average

\* Mutant: the thread that drops the sound holds the wave's mutex while it
\* joins.
WaveLockFree_held_by_joiner(s) == ui_pc # "join"

\* wave.lock() returns: nobody else holds the mutex of sound s's wave.  The
\* thread takes it for the one push and releases it at the end of the block;
\* get_current_sound_wave only clones the Arc, and Drop and stop() never
\* lock it, so no other thread is ever found holding it.
WaveLockFree(s) == TRUE

\* The rest of one loop iteration: next_packet, the track filter, decode and
\* the window update.
WavePacket(s) ==
    /\ sounds[s].th = "packet"
    /\ WavePushes(s) => WaveLockFree(s)
    /\ LET file == FileTable[sounds[s].file]
           snd == sounds[s]
       IN sounds' = ThreadStep(s,
            IF snd.fpos >= Len(file.packets)
            THEN \* next_packet fails: ResetRequired returns, anything else breaks.
                 ThreadEnd(snd)
            ELSE LET kind == file.packets[snd.fpos + 1]
                     read == [snd EXCEPT !.fpos = @ + 1]
                 IN CASE SkippedPacket(kind) ->
                            [read EXCEPT !.th = "check"]
                      [] kind = "dec_fatal" ->
                            ThreadEnd(read)
                      [] OTHER ->
                            [PushSample(read, PacketMean(kind)) EXCEPT !.th = "check"])
    /\ UNCHANGED <<tracklist, current_track_index, current_sound, playback_rate,
                   volume, main_track_volume, ui_pc, ui_cont, reader_wave, fs, net,
                   last_msg>>

\* ---------------------------------------------- ProcessMessageListener
\* src/src/app/process_message_listener.rs and ApplicationState.

Processes == 1..MaxProcesses

\* What std::env::args().nth(1) can be: no argument, or a path.  The two
\* long ones are 1499 and 1500 bytes of "a".
ArgPaths == {"", "a.mp3", "c.txt", "long1499", "long1500"}

Args == {{}} \cup {{path} : path \in ArgPaths}

\* String::as_bytes of an argument.
PathBytes(path) ==
    CASE path = ""         -> <<>>
      [] path = "a.mp3"    -> <<97, 46, 109, 112, 51>>
      [] path = "c.txt"    -> <<99, 46, 116, 120, 116>>
      [] path = "long1499" -> Rep(97, MAX_MESSAGE_SIZE - 1)
      [] path = "long1500" -> Rep(97, MAX_MESSAGE_SIZE)

\* The path a received string names; a string none of the paths above has
\* names no file.
PathOfBytes(bytes) ==
    IF \E path \in ArgPaths : PathBytes(path) = bytes
    THEN CHOOSE path \in ArgPaths : PathBytes(path) = bytes
    ELSE "noext"

\* The receive buffer, [u8; MAX_MESSAGE_SIZE], is held as its bytes up to
\* the last one written since it was last zeroed; every byte after them is 0.

\* let mut buf = [0; MAX_MESSAGE_SIZE]
ZeroBuf == <<>>

\* Mutant: the buffer is not cleared between two messages.
FilledBuf_stale(buf) == buf

\* buf.fill(0)
FilledBuf(buf) == ZeroBuf

\* socket.recv(&mut buf): the datagram, cut to the buffer's size, is copied
\* to the front of the buffer; the rest of the buffer stays.
Recv(buf, datagram) ==
    LET n == IF Len(datagram) > MAX_MESSAGE_SIZE
             THEN MAX_MESSAGE_SIZE ELSE Len(datagram)
    IN IF n >= Len(buf) THEN SubSeq(datagram, 1, n)
       ELSE SubSeq(datagram, 1, n) \o SubSeq(buf, n + 1, Len(buf))

\* std::str::from_utf8(&buf) on the whole buffer: the bytes used here are
\* ASCII (0 included), or 255, which no UTF-8 text contains.
Utf8Valid(buf) == \A i \in DOMAIN buf : buf[i] < 128

\* path.trim_matches(char::from(0)): NULs are cut from both ends.
TrimNul(buf) ==
    IF \A i \in DOMAIN buf : buf[i] = 0 THEN <<>>
    ELSE SubSeq(buf,
                CHOOSE i \in DOMAIN buf :
                    buf[i] # 0 /\ \A j \in 1..(i - 1) : buf[j] = 0,
                CHOOSE i \in DOMAIN buf :
                    buf[i] # 0 /\ \A j \in (i + 1)..Len(buf) : buf[j] = 0)

\* The loop of process_messages over the datagrams waiting in the socket,
\* starting with buffer `buf`: [paths: the strings pushed, as bytes; ok: FALSE
\* when from_utf8 failed and the loop panicked; left: datagrams not received].
\* recv on the non-blocking socket returns Err when nothing waits, which
\* ends the loop.
RECURSIVE ProcessMessages(_, _)
ProcessMessages(queue, buf) ==
    LET Received(got) ==
            IF ~Utf8Valid(got)
            THEN [paths |-> <<>>, ok |-> FALSE, left |-> Tail(queue)]
            ELSE [ProcessMessages(Tail(queue), FilledBuf(got))
                     EXCEPT !.paths = <<TrimNul(got)>> \o @]
    IN IF queue = <<>> THEN [paths |-> <<>>, ok |-> TRUE, left |-> <<>>]
       ELSE CHOOSE res \in {Received(got) : got \in {Recv(buf, Head(queue))}} : TRUE

\* The paths of a sequence of received strings.
PathsOf(strings) == [i \in DOMAIN strings |-> PathOfBytes(strings[i])]

\* ApplicationMessage::VisualUpdate, the periodic tick of the listening
\* process: process_messages, then every path goes to
\* try_importing_track_from_path.  A string that is not UTF-8 panics inside
\* process_messages, before any path is imported.
VisualUpdate ==
    /\ UiIdle
    /\ port_owner # {}
    /\ PlayerKnobsUnchanged
    /\ UNCHANGED <<current_track_index, current_sound, sounds, ui_cont,
                   reader_wave, fs, port_owner, procs>>
    /\ \E res \in {ProcessMessages(socket_buf, ZeroBuf)} :
         /\ last_msg' = [msg |-> "VisualUpdate", rel |-> "-", paths |-> res.paths]
         /\ socket_buf' = res.left
         /\ IF res.ok
            THEN /\ tracklist' = ImportAll(tracklist, PathsOf(res.paths))
                 /\ UNCHANGED ui_pc
            ELSE /\ ui_pc' = "panicked"
                 /\ UNCHANGED tracklist

\* What the OS answers to the calls of ProcessMessageListener::new.
\*   "ok": every call succeeds and a datagram sent reaches the socket;
\*   "lost": send succeeds, the datagram is dropped on the way;
\*   "client_err": the client socket cannot be bound or connected;
\*   "send_err": send fails;
\*   "bind_err": bind fails for another reason than AddrInUse;
\*   "nonblocking_err": set_nonblocking fails on the bound socket.
OsOutcomes == {"ok", "lost", "client_err", "send_err", "bind_err", "nonblocking_err"}

\* Mutant: an argument of exactly MAX_MESSAGE_SIZE bytes is sent as well.
PathTooLong_off_by_one(path) == Len(PathBytes(path)) > MAX_MESSAGE_SIZE

\* path.len() >= MAX_MESSAGE_SIZE
PathTooLong(path) == Len(PathBytes(path)) >= MAX_MESSAGE_SIZE

\* Process p starts with argument `arg`: ApplicationState::new calls
\* ProcessMessageListener::new and exits when it returns None.
\*  - bind fails with AddrInUse while another process holds the port: the
\*    argument, if there is one and it is short enough, is sent to the port
\*    as one datagram; None in every case;
\*  - bind fails otherwise: None;
\*  - bind succeeds: Some(listener) if set_nonblocking succeeds, else the
\*    socket is dropped and None is returned.
StartProcess(p, arg, os) ==
    /\ procs[p] = "absent"
    /\ IF port_owner # {}
       THEN \* AddrInUse
            /\ os \notin {"bind_err", "nonblocking_err"}
            /\ procs' = [procs EXCEPT ![p] = "exited"]
            /\ socket_buf' =
                  IF \E path \in arg : ~PathTooLong(path) /\ os = "ok"
                  THEN Append(socket_buf, PathBytes(CHOOSE path \in arg : TRUE))
                  ELSE socket_buf
            /\ UNCHANGED port_owner
       ELSE /\ os \in {"ok", "bind_err", "nonblocking_err"}
            /\ procs' = [procs EXCEPT ![p] = IF os = "ok" THEN "listening" ELSE "exited"]
            /\ port_owner' = IF os = "ok" THEN {p} ELSE {}
            /\ UNCHANGED socket_buf
    /\ last_msg' = [msg |-> "StartProcess", rel |-> "-", p |-> p, arg |-> arg, os |-> os]
    /\ UNCHANGED <<tracklist, current_track_index, current_sound, playback_rate,
                   volume, main_track_volume, sounds, ui_pc, ui_cont, reader_wave, fs>>

\* --------------------------------------------------------- specifications

\* MainLayout::new / AudioPlayer::new.
InitLayout ==
    /\ tracklist = <<>>
    /\ current_track_index = {}
    /\ current_sound = {}
    /\ playback_rate = DefaultRate
    /\ volume = DefaultVolume
    /\ main_track_volume = DefaultVolume
    /\ sounds = [s \in SoundIds |-> FreeSound]
    /\ ui_pc = "idle"
    /\ ui_cont = NoCont
    /\ reader_wave = {}
    /\ last_msg = [msg |-> "none", rel |-> "-"]

\* ApplicationState::new has returned in process 1: it is the listener.
InitPlayer ==
    /\ InitLayout
    /\ port_owner = {1}
    /\ socket_buf = <<>>
    /\ procs = [p \in Processes |-> IF p = 1 THEN "listening" ELSE "absent"]

Init ==
    /\ InitPlayer
    /\ fs = ShortFiles

Next ==
    \/ \E r \in Rates : PlaybackRateChanged(r)
    \/ \E i \in Indices(tracklist) : PlayTrackFromStart(i)
    \/ \E i \in Indices(tracklist) : PlayPauseTrack(i)
    \/ \E i \in Indices(tracklist) : DeleteTrack(i)
    \/ \E portion \in Portions : ChangeTrackPos(portion)
    \/ RedrawTrackPos
    \/ \E paths \in PathLists : AddMusic(paths)
    \/ \E paths \in PathLists : OpenTracklist(paths)
    \/ JoinDone
    \/ PlaybackClock
    \/ \E s \in SoundIds : WaveOpen(s)
    \/ \E s \in SoundIds : WaveCheckStop(s)
    \/ \E s \in SoundIds : WavePacket(s)

\* The tracklist and the sounds under the messages that touch them, with
\* audio files too short to fill one averaging window and no widget holding
\* a wave.  (The volume is a value of its own, set by VolumeChanged alone.)
Spec == Init /\ [][Next]_vars

\* The wave buffers: one imported track whose file fills an averaging window,
\* played, restarted, advanced onto itself and deleted, while the widget
\* takes its reference to the wave whenever the view is rebuilt.
InitWave ==
    /\ InitPlayer
    /\ fs = LongFiles

NextWave ==
    \/ \E paths \in {<<"a.mp3">>} : tracklist = <<>> /\ AddMusic(paths)
    \/ \E i \in Indices(tracklist) : PlayTrackFromStart(i)
    \/ \E i \in Indices(tracklist) : DeleteTrack(i)
    \/ RedrawTrackPos
    \/ JoinDone
    \/ PlaybackClock
    \/ View
    \/ \E s \in SoundIds : WaveOpen(s)
    \/ \E s \in SoundIds : WaveCheckStop(s)
    \/ \E s \in SoundIds : WavePacket(s)

SpecWave == InitWave /\ [][NextWave]_vars

\* The wave thread over every kind of file, with one imported track.
InitAnalyzer ==
    /\ InitPlayer
    /\ fs = DOMAIN FileTable \ UnplayableFiles

SpecAnalyzer == InitAnalyzer /\ [][NextWave]_vars

\* The tracklist under import, play and reordering.
NextMove ==
    \/ \E paths \in PathLists : AddMusic(paths)
    \/ \E i \in Indices(tracklist) : PlayPauseTrack(i)
    \/ \E i \in Indices(tracklist) : MoveTrack(i, "up")
    \/ \E i \in Indices(tracklist) : MoveTrack(i, "down")
    \/ JoinDone
    \/ \E s \in SoundIds : WaveOpen(s)
    \/ \E s \in SoundIds : WaveCheckStop(s)
    \/ \E s \in SoundIds : WavePacket(s)

SpecMove == Init /\ [][NextMove]_vars

\* Import of whatever paths the dialog or a drop hands over, next to a
\* playing track.
NextImport ==
    \/ \E paths \in RawPathLists : AddMusic(paths)
    \/ \E i \in Indices(tracklist) : PlayPauseTrack(i)
    \/ JoinDone
    \/ \E s \in SoundIds : WaveOpen(s)
    \/ \E s \in SoundIds : WaveCheckStop(s)
    \/ \E s \in SoundIds : WavePacket(s)

SpecImport == Init /\ [][NextImport]_vars

\* The decode loop over every kind of file: one imported track that is
\* played, restarted and deleted while its thread runs.
NextDecode ==
    \/ \E paths \in {<<"a.mp3">>} : tracklist = <<>> /\ AddMusic(paths)
    \/ \E i \in Indices(tracklist) : PlayTrackFromStart(i)
    \/ \E i \in Indices(tracklist) : DeleteTrack(i)
    \/ JoinDone
    \/ \E s \in SoundIds : WaveOpen(s)
    \/ \E s \in SoundIds : WaveCheckStop(s)
    \/ \E s \in SoundIds : WavePacket(s)

SpecDecode == InitAnalyzer /\ [][NextDecode]_vars

\* Teardown: the same messages over every kind of file, with the widget
\* taking its reference to the wave on each rebuild of the view.  Every codec
\* call returns and the OS keeps scheduling the wave threads and the UI
\* thread, so a step of a thread that can be taken is taken.
NextTeardown ==
    \/ NextDecode
    \/ View

\* Restarts: two entries over every kind of file, played from the start in
\* any order while the widget takes its reference to the wave.
NextRestart ==
    \/ \E paths \in {<<"a.mp3">>, <<"b.ogg">>} : Len(tracklist) < 2 /\ AddMusic(paths)
    \/ \E i \in Indices(tracklist) : PlayTrackFromStart(i)
    \/ JoinDone
    \/ View
    \/ \E s \in SoundIds : WaveOpen(s)
    \/ \E s \in SoundIds : WaveCheckStop(s)
    \/ \E s \in SoundIds : WavePacket(s)

InitRestart ==
    /\ InitPlayer
    /\ fs = {7}

SpecRestart == InitRestart /\ [][NextRestart]_vars

SpecTeardown ==
    /\ InitAnalyzer
    /\ [][NextTeardown]_vars
    /\ WF_vars(JoinDone)
    /\ \A s \in SoundIds :
          WF_vars(WaveOpen(s)) /\ WF_vars(WaveCheckStop(s)) /\ WF_vars(WavePacket(s))

\* Unattended playback: the tracklist is filled and one track started, and
\* from then on only the tick, the clock and the threads take steps.  The
\* widget keeps sending RedrawTrackPos, the output collaborator keeps playing
\* and the OS keeps scheduling the wave threads (so every join returns).
NextLive ==
    \/ \E paths \in PathLists : current_track_index = {} /\ AddMusic(paths)
    \/ \E i \in Indices(tracklist) : current_track_index = {} /\ PlayPauseTrack(i)
    \/ RedrawTrackPos
    \/ JoinDone
    \/ PlaybackClock
    \/ \E s \in SoundIds : WaveOpen(s)
    \/ \E s \in SoundIds : WaveCheckStop(s)
    \/ \E s \in SoundIds : WavePacket(s)

SpecLive ==
    /\ Init
    /\ [][NextLive]_vars
    /\ WF_vars(RedrawTrackPos)
    /\ WF_vars(JoinDone)
    /\ WF_vars(PlaybackClock)
    /\ \A s \in SoundIds :
          WF_vars(WaveOpen(s)) /\ WF_vars(WaveCheckStop(s)) /\ WF_vars(WavePacket(s))

\* AudioPlayer's public methods under any caller: the handlers, and next to
\* them set_volume, a stop() on its own and the getters.
NextPlayer ==
    \/ Next
    \/ \E v \in Volumes : VolumeChanged(v)
    \/ Stop
    \/ Getters

SpecPlayer == Init /\ [][NextPlayer]_vars

\* The fatal paths: messages that carry an index one past the end of the
\* tracklist, and files the output collaborator rejects.
InitFatal ==
    /\ InitPlayer
    /\ fs = ShortFiles \cup UnplayableFiles

NextFatal ==
    \/ \E r \in Rates : PlaybackRateChanged(r)
    \/ \E i \in MessageIndices : PlayTrackFromStart(i)
    \/ \E i \in MessageIndices : PlayPauseTrack(i)
    \/ \E i \in MessageIndices : DeleteTrack(i)
    \/ RedrawTrackPos
    \/ \E paths \in PathLists : AddMusic(paths)
    \/ JoinDone
    \/ PlaybackClock
    \/ \E s \in SoundIds : WaveOpen(s)
    \/ \E s \in SoundIds : WaveCheckStop(s)
    \/ \E s \in SoundIds : WavePacket(s)

SpecFatal == InitFatal /\ [][NextFatal]_vars

\* The hand-off: no process runs at first; the processes start in any order
\* with any argument, the first one to bind the port becomes the listener
\* whose MainLayout this is, and its tick, its user and its wave threads take
\* steps.  The tick is a message of the listener's event loop: it is handled
\* each time the handler in progress has returned.
InitHandoff ==
    /\ InitLayout
    /\ fs = ShortFiles
    /\ port_owner = {}
    /\ socket_buf = <<>>
    /\ procs = [p \in Processes |-> "absent"]

NextHandoff ==
    \/ \E p \in Processes : \E arg \in Args : \E os \in OsOutcomes :
          StartProcess(p, arg, os)
    \/ VisualUpdate
    \/ \E i \in Indices(tracklist) : PlayPauseTrack(i)
    \/ JoinDone
    \/ \E s \in SoundIds : WaveOpen(s)
    \/ \E s \in SoundIds : WaveCheckStop(s)
    \/ \E s \in SoundIds : WavePacket(s)

SpecHandoff ==
    /\ InitHandoff
    /\ [][NextHandoff]_vars
    /\ SF_vars(VisualUpdate)
    /\ WF_vars(JoinDone)
    /\ \A s \in SoundIds :
          WF_vars(WaveOpen(s)) /\ WF_vars(WaveCheckStop(s)) /\ WF_vars(WavePacket(s))

\* ------------------------------------------------------------------ claims

Alive == {s \in SoundIds : sounds[s].life = "alive"}

\* C1: in every reachable state current_track_index is None or an index of
\* the tracklist (strictly less than its length).
C1_IndexInRange ==
    /\ Cardinality(current_track_index) <= 1
    /\ \A c \in current_track_index : c >= 0 /\ c < Len(tracklist)

\* A track below the current one was deleted and a current track remains.
C1_Witness ==
    /\ last_msg = [msg |-> "DeleteTrack", rel |-> "lt"]
    /\ ui_pc = "idle"
    /\ current_track_index # {}

\* C2 (as claimed): deleting the entry at any index k below the current index
\* c sets the current index to exactly c - 1.
C2_DeleteBelowDecrements ==
    [][\A k \in Indices(tracklist) : \A c \in current_track_index :
         (k < c /\ DeleteTrack(k)) => current_track_index' = {c - 1}]_vars

\* C3: once DeleteTrack(k) arrived with k the current index, there is no
\* current index, the sound is stopped and signalled while the handler tears
\* it down, and when the handler has returned no sound remains.
C3_DeleteCurrentStops ==
    last_msg = [msg |-> "DeleteTrack", rel |-> "eq"] =>
        /\ current_track_index = {}
        /\ \A s \in current_sound :
             sounds[s].hstate = "Stopped" /\ sounds[s].stop_wave_calc_signal
        /\ ui_pc = "idle" => (current_sound = {} /\ Alive = {})

\* The current track was deleted from a list that keeps other entries.
C3_Witness ==
    /\ last_msg = [msg |-> "DeleteTrack", rel |-> "eq"]
    /\ ui_pc = "idle"
    /\ tracklist # <<>>

\* C4: deleting the entry at an index above the current index leaves the
\* current index unchanged.
C4_DeleteAboveKeeps ==
    [][\A k \in Indices(tracklist) : \A c \in current_track_index :
         (k > c /\ DeleteTrack(k)) => current_track_index' = {c}]_vars

\* A track above the current one was deleted; the current one is not the first.
C4_Witness ==
    /\ last_msg = [msg |-> "DeleteTrack", rel |-> "gt"]
    /\ \E c \in current_track_index : c >= 1

\* C5: when the advance check fires at index c on a list of length N, the
\* current index becomes (c + 1) mod N and a new sound for the entry at that
\* index is created; when the handler has returned it is the current sound.
C5_AdvanceStep ==
    \A c \in current_track_index :
        (RedrawTrackPos /\ AdvanceDue) =>
            LET next == (c + 1) % Len(tracklist) IN
            /\ current_track_index' = {next}
            /\ \E s \in SoundIds :
                 /\ sounds[s].life = "free"
                 /\ sounds'[s].life = "alive"
                 /\ sounds'[s].th = "open"
                 /\ sounds'[s].path = TrackAt(tracklist, next)

C5_AdvanceDone ==
    (last_msg = [msg |-> "RedrawTrackPos", rel |-> "due"] /\ ui_pc = "idle") =>
        /\ current_sound # {}
        /\ \A s \in current_sound : \A c \in current_track_index :
             /\ sounds[s].life = "alive"
             /\ sounds[s].hstate = "Playing"
             /\ sounds[s].path = TrackAt(tracklist, c)

C5_Advance == [][C5_AdvanceStep]_vars /\ []C5_AdvanceDone

\* The advance wrapped around from the last index of a longer list to 0.
C5_Witness ==
    /\ last_msg = [msg |-> "RedrawTrackPos", rel |-> "due"]
    /\ ui_pc = "idle"
    /\ current_track_index = {0}
    /\ Len(tracklist) >= 2

\* C6: a tick with no current track, or with position + epsilon < duration,
\* leaves the current index, the tracklist and the sounds unchanged.
C6_TickIdleOrEarly ==
    [][(/\ RedrawTrackPos
        /\ \/ current_track_index = {}
           \/ CurrentSoundPosition + AdvanceEpsilon < CurrentSoundDuration)
       => UNCHANGED <<current_track_index, tracklist, current_sound, sounds>>]_vars

\* A tick arrived just before the end of the current track.
C6_Witness ==
    /\ last_msg = [msg |-> "RedrawTrackPos", rel |-> "early"]
    /\ \E s \in current_sound :
         sounds[s].hpos + AdvanceEpsilon + 1 = sounds[s].duration * 100

\* C7 (as claimed): at every moment at most one sound is alive.
C7_AtMostOneSession == Cardinality(Alive) <= 1

\* C8: a sound object ceases to exist only after its stop signal was stored
\* and its thread has ended; when no handler is running, every thread that
\* has not ended belongs to the current sound.
C8_DropStep ==
    \A s \in SoundIds :
        (sounds[s].life = "alive" /\ sounds'[s].life # "alive") =>
            /\ sounds[s].stop_wave_calc_signal
            /\ ~Running(sounds[s])
            /\ ~Running(sounds'[s])

C8_NoStrayThread ==
    /\ ui_pc = "idle" => \A s \in SoundIds : Running(sounds[s]) => s \in current_sound
    /\ ui_pc = "join" => \A s \in current_sound : sounds[s].stop_wave_calc_signal

C8_SignalThenJoin == [][C8_DropStep]_vars /\ []C8_NoStrayThread

\* The UI thread is blocked in the join while the signalled thread still runs.
C8_Witness ==
    /\ ui_pc = "join"
    /\ \E s \in current_sound :
         sounds[s].stop_wave_calc_signal /\ sounds[s].th = "packet"

\* C9: the wave of a live sound changes only by one byte appended at its end,
\* tearing the sound down keeps the contents, and the buffer of a torn down
\* sound never changes while the widget still holds it.
C9_WaveStep ==
    \A s \in SoundIds :
        /\ (sounds[s].life = "alive" /\ sounds'[s].life = "alive") =>
             \/ sounds'[s].wave = sounds[s].wave
             \/ \E b \in 0..U8_MAX : sounds'[s].wave = Append(sounds[s].wave, b)
        /\ (sounds[s].life \in {"alive", "dead"} /\ sounds'[s].life = "dead") =>
             sounds'[s].wave = sounds[s].wave
        /\ sounds[s].life = "dead" => sounds'[s].life \in {"dead", "free"}

C9_WaveAppendOnly == [][C9_WaveStep]_vars

\* The widget holds the non-empty wave of a sound that was torn down.
C9_Witness ==
    \E s \in reader_wave :
        sounds[s].life = "dead" /\ Len(sounds[s].wave) >= 1

\* C10: whenever a handler has returned, the current sound's handle plays at
\* the persisted playback rate.
C10_RatePersists ==
    ui_pc = "idle" => \A s \in current_sound : sounds[s].hrate = playback_rate

\* A rate other than the default was set, and a later automatic advance
\* started a sound that plays at it.
C10_Witness ==
    /\ last_msg = [msg |-> "RedrawTrackPos", rel |-> "due"]
    /\ ui_pc = "idle"
    /\ playback_rate # DefaultRate
    /\ \E s \in current_sound : sounds[s].hrate = playback_rate /\ sounds[s].hpos = 0

\* What the engine keeps besides the session: MainLayout's list and index and
\* AudioPlayer's rate and volume.
EngineRest == <<tracklist, current_track_index, playback_rate, volume, main_track_volume>>

\* C11: PlayTrackFromStart(i) with i past the end of the tracklist is a silent
\* no-op (the handler returns normally with the index, the tracklist and the
\* session unchanged); with i in range, unless the file is rejected, the index
\* becomes i and a session for entry i is started.
C11_PlayStep ==
    \A i \in MessageIndices :
        PlayTrackFromStart(i) =>
            IF i >= Len(tracklist)
            THEN /\ ui_pc' = "idle"
                 /\ UNCHANGED <<current_track_index, tracklist, current_sound, sounds>>
            ELSE ui_pc' # "panicked" =>
                   /\ current_track_index' = {i}
                   /\ \E s \in SoundIds :
                        /\ sounds[s].life = "free"
                        /\ sounds'[s].life = "alive"
                        /\ sounds'[s].path = TrackAt(tracklist, i)
                        /\ s \in current_sound' \/ ui_cont'.new = s

C11_PlayTrackBoundsChecked == [][C11_PlayStep]_vars

\* C12: stop() with no current sound returns normally and changes nothing:
\* no sound appears, rate, volume, tracklist and index stay as they are.
C12_StopStep ==
    (Stop /\ current_sound = {}) =>
        /\ ui_pc' = "idle"
        /\ UNCHANGED <<current_sound, sounds, ui_cont>>
        /\ UNCHANGED EngineRest

C12_StopNoSoundNoop == [][C12_StopStep]_vars

C12_Witness ==
    /\ last_msg = [msg |-> "stop", rel |-> "none"]
    /\ ui_pc = "idle"
    /\ current_sound = {}
    /\ current_track_index # {}
    /\ playback_rate # DefaultRate
    /\ volume # DefaultVolume

\* C13: stop() with a current sound tears it down (the handle is stopped, the
\* caller is blocked until the drop is over, and then no sound is left) and
\* leaves index, tracklist, rate and volume alone.
C13_StopStep ==
    /\ (Stop /\ current_sound # {}) =>
          /\ ui_pc' = "join"
          /\ \A s \in current_sound :
                sounds'[s].hstate = "Stopped" /\ sounds'[s].stop_wave_calc_signal
          /\ UNCHANGED EngineRest
    /\ (ui_cont.op = "stop" /\ JoinDone) =>
          /\ ui_pc' = "idle"
          /\ current_sound' = {}
          /\ \A s \in SoundIds : sounds'[s].life # "alive"
          /\ UNCHANGED EngineRest

C13_StopTearsDown == [][C13_StopStep]_vars

C13_Witness ==
    /\ last_msg = [msg |-> "stop", rel |-> "sound"]
    /\ ui_pc = "idle"
    /\ current_sound = {}
    /\ current_track_index # {}
    /\ playback_rate # DefaultRate
    /\ volume # DefaultVolume

\* C14: clear_tracklist (run by OpenTracklist before it imports) ends with no
\* sound, no current index and none of the old entries: the handler ends with
\* exactly the entries imported from the opened file.
C14_ClearStep ==
    /\ \A paths \in PathLists :
          OpenTracklist(paths) =>
             IF current_sound = {}
             THEN /\ ui_pc' = "idle"
                  /\ current_sound' = {}
                  /\ current_track_index' = {}
                  /\ tracklist' = ImportAll(<<>>, paths)
             ELSE /\ ui_pc' = "join"
                  /\ ui_cont'.op = "clear"
                  /\ ui_cont'.paths = ImportAll(<<>>, paths)
    /\ (ui_cont.op = "clear" /\ JoinDone) =>
          /\ ui_pc' = "idle"
          /\ current_sound' = {}
          /\ \A s \in SoundIds : sounds'[s].life # "alive"
          /\ current_track_index' = {}
          /\ tracklist' = ui_cont.paths

C14_ClearEmpties == [][C14_ClearStep]_vars

C14_Witness ==
    /\ ui_pc = "join"
    /\ ui_cont.op = "clear"
    /\ ui_cont.paths = <<>>
    /\ Len(tracklist) = MaxTracks
    /\ current_track_index # {}

\* C15: pause_resume (PlayPauseTrack on the current track) turns a playing
\* sound paused and a paused one playing, touches nothing else of the sound,
\* keeps the index and the session, and does nothing without a sound; two
\* calls in a row give the play state back.
C15_ToggleStep ==
    \A i \in Indices(tracklist) :
        (PlayPauseTrack(i) /\ current_track_index = {i}) =>
            /\ ui_pc' = "idle"
            /\ UNCHANGED <<current_track_index, current_sound>>
            /\ UNCHANGED EngineRest
            /\ \A s \in SoundIds :
                  sounds'[s] =
                    IF s \in current_sound
                    THEN [sounds[s] EXCEPT !.hstate =
                            IF @ = "Playing" THEN "Paused" ELSE "Playing"]
                    ELSE sounds[s]

C15_TwiceRestores ==
    \A s \in current_sound :
        ui_pc = "idle" => PauseResume(PauseResume(sounds[s])) = sounds[s]

C15_PauseResumeToggles == [][C15_ToggleStep]_vars /\ []C15_TwiceRestores

C15_Witness ==
    /\ last_msg = [msg |-> "PlayPauseTrack", rel |-> "eq"]
    /\ \E s \in current_sound : sounds[s].hstate = "Playing" /\ sounds[s].hpos > 0

\* C16: set_volume(v) and set_playback_rate(r) store the value (the getter
\* returns it next) with or without a sound, and in the same call the volume
\* is put on the main track and the rate on the current sound's handle.
C16_SetStep ==
    /\ \A v \in Volumes :
          VolumeChanged(v) =>
             volume' = v /\ get_volume' = v /\ main_track_volume' = v
    /\ \A r \in Rates :
          PlaybackRateChanged(r) =>
             /\ playback_rate' = r
             /\ get_playback_rate' = r
             /\ current_sound' = current_sound
             /\ \A s \in current_sound : sounds'[s].hrate = r

C16_VolumeApplied == main_track_volume = volume

C16_SettersStoreAndApply == [][C16_SetStep]_vars /\ []C16_VolumeApplied

C16_Witness ==
    /\ last_msg = [msg |-> "PlaybackRateChanged", rel |-> "-"]
    /\ playback_rate # DefaultRate
    /\ \E s \in current_sound : sounds[s].hrate = playback_rate
    /\ volume # DefaultVolume
    /\ main_track_volume = volume

\* The getters leave every variable of the program as it is.
C17_GettersPure ==
    Getters => UNCHANGED <<tracklist, current_track_index, current_sound,
                           playback_rate, volume, main_track_volume, sounds,
                           ui_pc, ui_cont, reader_wave, fs>>

C17_DefaultsAll ==
    (last_msg.msg = "getters" /\ current_sound = {}) =>
        /\ last_msg.position = 0
        /\ last_msg.duration = 0
        /\ last_msg.rate = DefaultRate
        /\ last_msg.volume = DefaultVolume

\* C17 as stated: getters change nothing, and without a sound position and
\* duration are 0.0 and rate and volume are 1.0.
C17_GettersDefaults == [][C17_GettersPure]_vars /\ []C17_DefaultsAll

C17_StoredKnobs ==
    last_msg.msg = "getters" =>
        /\ current_sound = {} => (last_msg.position = 0 /\ last_msg.duration = 0)
        /\ last_msg.rate = playback_rate
        /\ last_msg.volume = volume

\* C17 amended: getters change nothing; without a sound position and
\* duration are 0.0; rate and volume are the stored values, sound or no sound.
C17_GettersStored == [][C17_GettersPure]_vars /\ []C17_StoredKnobs

C17_Witness ==
    /\ last_msg.msg = "getters"
    /\ current_sound = {}
    /\ last_msg.position = 0
    /\ last_msg.duration = 0
    /\ last_msg.rate # DefaultRate
    /\ last_msg.volume # DefaultVolume

C18_KnobStep ==
    /\ playback_rate' # playback_rate => \E r \in Rates : PlaybackRateChanged(r)
    /\ volume' # volume => \E v \in Volumes : VolumeChanged(v)

\* C18: playback_rate and volume start at 1.0, and a step changes the rate
\* only if it is set_playback_rate and the volume only if it is set_volume.
C18_KnobsPersist ==
    /\ playback_rate = DefaultRate /\ volume = DefaultVolume
    /\ [][C18_KnobStep]_vars

C18_Witness ==
    /\ last_msg = [msg |-> "RedrawTrackPos", rel |-> "due"]
    /\ ui_pc = "idle"
    /\ current_sound # {}
    /\ playback_rate # DefaultRate
    /\ volume # DefaultVolume

C19_FatalStep ==
    /\ ui_pc = "panicked" =>
          UNCHANGED <<ui_pc, ui_cont, tracklist, current_track_index, current_sound,
                      playback_rate, volume, main_track_volume>>
    /\ ui_pc' = "panicked" =>
          /\ current_sound' \subseteq current_sound
          /\ \A s \in SoundIds : sounds'[s].life = "alive" => sounds[s].life = "alive"

C19_ReturnedMeansPlaying ==
    ( /\ ui_pc = "idle"
      /\ \/ last_msg.msg = "PlayTrackFromStart"
         \/ last_msg.msg = "PlayPauseTrack" /\ last_msg.rel # "eq"
         \/ last_msg.msg = "RedrawTrackPos" /\ last_msg.rel = "due" )
    => \E i \in current_track_index, s \in current_sound :
          /\ i \in Indices(tracklist)
          /\ sounds[s].life = "alive"
          /\ sounds[s].path = TrackAt(tracklist, i)
          /\ sounds[s].hstate # "Stopped"

\* C19: a play the output collaborator rejects panics the UI thread inside
\* the handler: no sound is created by that step, nothing runs on the UI
\* thread afterwards (no retry), and a handler that returns normally from
\* play has the sound of its track.
C19_PlayFailureFatal == [][C19_FatalStep]_vars /\ []C19_ReturnedMeansPlaying

C19_Witness ==
    /\ ui_pc = "panicked"
    /\ last_msg.msg = "PlayTrackFromStart"
    /\ \E i \in current_track_index : i \in Indices(tracklist)
    /\ \E s \in current_sound : sounds[s].hstate = "Stopped"

\* C20: a step of the wave thread of sound s, error paths included, changes
\* nothing but the wave and the thread's own position: the tracklist, the
\* index, the current sound, rate, volume, the UI thread, every other sound
\* and the handle of sound s are as before.
C20_AnalyzerStep ==
    \A s \in SoundIds :
        (WaveOpen(s) \/ WaveCheckStop(s) \/ WavePacket(s)) =>
            /\ UNCHANGED <<tracklist, current_track_index, current_sound,
                           playback_rate, volume, main_track_volume, ui_pc,
                           ui_cont, reader_wave>>
            /\ \A t \in SoundIds \ {s} : sounds'[t] = sounds[t]
            /\ sounds'[s].hstate = sounds[s].hstate
            /\ sounds'[s].hrate = sounds[s].hrate
            /\ sounds'[s].hpos = sounds[s].hpos
            /\ sounds'[s].path = sounds[s].path
            /\ sounds'[s].duration = sounds[s].duration
            /\ sounds[s].life = "alive" => sounds'[s].life = "alive"

C20_AnalyzerOwnBuffer == [][C20_AnalyzerStep]_vars

C20_Witness ==
    \E s \in current_sound :
        /\ sounds[s].th = "done"
        /\ sounds[s].wave = <<WaveByte(sample_count_to_average * PacketMean("ok_lo"),
                                        sample_count_to_average)>>
        /\ sounds[s].hstate = "Playing"
        /\ ui_pc = "idle"

\* C21: handlers exclude one another.  While a handler is blocked inside its
\* track change (the advance tick's included) the only step of the UI thread
\* is the end of that handler; and the tick reads the position, stores the
\* next index and calls play in one step.
C21_ExclusiveStep ==
    /\ ui_pc = "join" =>
          \/ JoinDone /\ last_msg' = last_msg
          \/ UNCHANGED <<tracklist, current_track_index, current_sound,
                         playback_rate, volume, main_track_volume, ui_pc,
                         ui_cont, last_msg>>
    /\ (RedrawTrackPos /\ current_track_index # {} /\ AdvanceDue) =>
          /\ \E cur \in current_track_index :
                current_track_index' = {NextTrackIndex(cur, Len(tracklist))}
          /\ \E s \in SoundIds : sounds[s].life = "free" /\ sounds'[s].life = "alive"

C21_HandlersExclusive == [][C21_ExclusiveStep]_vars

C21_Witness ==
    /\ ui_pc = "join"
    /\ ui_cont.op = "install"
    /\ last_msg = [msg |-> "RedrawTrackPos", rel |-> "due"]
    /\ \E s \in current_sound : Running(sounds[s])

\* C22: on a list of N >= 2 entries move_up(i) swaps entry i with entry
\* (i - 1) mod N and move_down(i) with entry (i + 1) mod N (so the ends wrap
\* around); on a list of at most one entry nothing changes.
C22_MoveStep ==
    \A i \in Indices(tracklist) : \A dir \in {"up", "down"} :
        MoveTrack(i, dir) =>
            LET N == Len(tracklist)
                t == IF dir = "up" THEN (i + N - 1) % N ELSE (i + 1) % N
            IN IF N <= 1 THEN tracklist' = tracklist
               ELSE /\ Len(tracklist') = N
                    /\ tracklist'[t + 1] = tracklist[i + 1]
                    /\ tracklist'[i + 1] = tracklist[t + 1]
                    /\ \A k \in Indices(tracklist) \ {i, t} :
                          tracklist'[k + 1] = tracklist[k + 1]

C22_MoveSwapsWithWrap == [][C22_MoveStep]_vars

C22_Witness ==
    /\ last_msg = [msg |-> "MoveTrackUp", rel |-> "eq"]
    /\ Len(tracklist) = 3
    /\ current_track_index = {2}
    /\ tracklist[1] # tracklist[3]

\* C23: after a move the current index designates the entry it designated
\* before: it goes from the moved index to the target, from the target to
\* the moved index, and stays otherwise.
C23_MoveStep ==
    \A i \in Indices(tracklist) : \A dir \in {"up", "down"} :
        MoveTrack(i, dir) =>
            LET N == Len(tracklist)
                t == IF dir = "up" THEN (i + N - 1) % N ELSE (i + 1) % N
            IN /\ Cardinality(current_track_index') = Cardinality(current_track_index)
               /\ \A c \in current_track_index :
                     /\ N >= 2 /\ c = i => current_track_index' = {t}
                     /\ N >= 2 /\ c = t => current_track_index' = {i}
                     /\ c \notin {i, t} => current_track_index' = {c}
                     /\ \A d \in current_track_index' :
                           TrackAt(tracklist', d) = TrackAt(tracklist, c)

C23_MoveKeepsCurrentEntry == [][C23_MoveStep]_vars

C23_Witness ==
    /\ last_msg = [msg |-> "MoveTrackDown", rel |-> "gt"]
    /\ Len(tracklist) = 3
    /\ current_track_index = {2}
    /\ tracklist[1] # tracklist[3]
    /\ current_sound # {}

\* The allow-list of C24.
C24_Accepted(path) ==
    IsFile(path) /\ \E e \in Extension(path) : e \in {"mp3", "wav", "ogg", "flac"}

RECURSIVE C24_Appended(_, _)
C24_Appended(list, paths) ==
    IF paths = <<>> THEN list
    ELSE C24_Appended(IF C24_Accepted(Head(paths)) THEN Append(list, Head(paths)) ELSE list,
                      Tail(paths))

\* C24: importing a path appends one entry at the end when the path is a
\* file with extension mp3, wav, ogg or flac and otherwise changes nothing and
\* raises no error; the entries already there keep their places, and the
\* current index and the sound are unchanged.
C24_ImportStep ==
    \A paths \in RawPathLists :
        AddMusic(paths) =>
            /\ ui_pc' = "idle"
            /\ tracklist' = C24_Appended(tracklist, paths)
            /\ UNCHANGED <<current_track_index, current_sound, sounds>>

C24_ImportFilters == [][C24_ImportStep]_vars

\* C25: the wave thread requests a packet only right after it read the stop
\* signal as clear at the top of the loop; once the signal is set, a thread at
\* the top of the loop never requests another packet and appends nothing, and
\* a thread with a packet in flight finishes that packet (at most one more
\* byte) and is then at the top of the loop or ended.
C25_CancelStep ==
    \A s \in SoundIds :
        /\ (sounds'[s].th = "packet" /\ sounds[s].th # "packet") =>
              sounds[s].th = "check" /\ ~sounds[s].stop_wave_calc_signal
        /\ (sounds[s].stop_wave_calc_signal /\ sounds[s].th # "packet") =>
              /\ sounds'[s].th # "packet"
              /\ sounds'[s].wave = sounds[s].wave \/ sounds'[s].life = "free"
        /\ (sounds[s].stop_wave_calc_signal /\ sounds[s].th = "packet") =>
              /\ sounds'[s].th \in {"packet", "check", "done", "none"}
              /\ Len(sounds'[s].wave) <= Len(sounds[s].wave) + 1
              /\ sounds'[s].fpos <= sounds[s].fpos + 1

C25_StopSignalHonoured == [][C25_CancelStep]_vars

C25_Witness ==
    \E s \in SoundIds :
        /\ sounds[s].stop_wave_calc_signal
        /\ sounds[s].th = "done"
        /\ ui_pc = "join"
        /\ Len(sounds[s].wave) = 1

\* The step of sound s's thread fails for good: the file cannot be opened or
\* probed, next_packet returns an error (or the end of the stream), or the
\* decoder returns an error other than IoError / DecodeError.
C26_Unrecoverable(s) ==
    \/ WaveOpen(s) /\ sounds'[s].th # "check"
    \/ /\ WavePacket(s)
       /\ LET packets == FileTable[sounds[s].file].packets IN
          \/ sounds[s].fpos >= Len(packets)
          \/ packets[sounds[s].fpos + 1] = "dec_fatal"

\* C26: on an unrecoverable error the wave thread ends in that step and the
\* wave keeps exactly the bytes it had: the partial window is dropped.
C26_FatalStep ==
    \A s \in SoundIds :
        C26_Unrecoverable(s) =>
            /\ sounds'[s].th \in {"done", "none"}
            /\ sounds'[s].wave = sounds[s].wave \/ sounds'[s].life = "free"

C26_ErrorKeepsBuffer == [][C26_FatalStep]_vars

C26_Witness ==
    \E s \in current_sound :
        /\ sounds[s].th = "done"
        /\ ~sounds[s].stop_wave_calc_signal
        /\ sounds[s].wave = <<WaveByte(sample_count_to_average * PacketMean("ok_lo"),
                                        sample_count_to_average)>>

\* C27: a packet whose decode fails with IoError or DecodeError changes
\* neither the window nor the wave and the loop goes on with the next packet;
\* the end of the stream ends the thread with the wave as it is.
C27_SkipStep ==
    \A s \in SoundIds :
        WavePacket(s) =>
            LET file == FileTable[sounds[s].file] IN
            /\ ( /\ sounds[s].fpos < Len(file.packets)
                 /\ file.packets[sounds[s].fpos + 1] \in {"dec_io", "dec_decode"} ) =>
                   sounds'[s] = [sounds[s] EXCEPT !.fpos = @ + 1, !.th = "check"]
            /\ (sounds[s].fpos >= Len(file.packets) /\ file.end = "eof") =>
                   /\ sounds'[s].th \in {"done", "none"}
                   /\ sounds'[s].wave = sounds[s].wave \/ sounds'[s].life = "free"
                   /\ UNCHANGED <<ui_pc, current_sound, current_track_index>>

C27_DecodeErrorSkipped == [][C27_SkipStep]_vars

C27_Witness ==
    \E s \in current_sound :
        /\ sounds[s].th = "check"
        /\ sounds[s].file = 8
        /\ sounds[s].fpos = sample_count_to_average + 1
        /\ Len(sounds[s].wave) = 1

\* Packets of the selected track decoded so far by the thread of sound s.
C28_Decoded(s) ==
    Cardinality({k \in 1..sounds[s].fpos :
                    FileTable[sounds[s].file].packets[k] \in {"ok_lo", "ok_hi"}})

C28_WindowInv ==
    \A s \in SoundIds :
        sounds[s].th \in {"check", "packet"} =>
            /\ Len(sounds[s].wave) = C28_Decoded(s) \div sample_count_to_average
            /\ sounds[s].nsamples = C28_Decoded(s) % sample_count_to_average
            /\ sounds[s].nsamples < sample_count_to_average

C28_EndStep ==
    \A s \in SoundIds :
        (sounds[s].th \in {"check", "packet"} /\ sounds'[s].th = "done") =>
            sounds'[s].wave = sounds[s].wave

\* C28: between iterations the wave holds floor(n / W) bytes and the window
\* n mod W values, n being the packets decoded so far; a thread that ends
\* (end of stream, error, cancellation) adds no byte for a partial window.
C28_WindowArithmetic == []C28_WindowInv /\ [][C28_EndStep]_vars

C28_Witness ==
    \E s \in current_sound :
        /\ sounds[s].th = "check"
        /\ sounds[s].file = 7
        /\ sounds[s].fpos = sample_count_to_average + 1
        /\ Len(sounds[s].wave) = 1
        /\ sounds[s].nsamples = 1

\* Mean values of the packets of file f decoded among its first fpos packets.
C29_Means(f, fpos) ==
    LET decoded == SelectSeq(SubSeq(FileTable[f].packets, 1, fpos),
                             LAMBDA kind : kind \in {"ok_lo", "ok_hi"})
    IN [k \in 1..Len(decoded) |-> PacketMean(decoded[k])]

RECURSIVE C29_Sum(_)
C29_Sum(seq) == IF seq = <<>> THEN 0 ELSE Head(seq) + C29_Sum(Tail(seq))

\* The wave a thread makes of the first fpos packets of file f.
C29_WaveOf(f, fpos) ==
    LET means == C29_Means(f, fpos)
        W == sample_count_to_average
    IN [j \in 1..(Len(means) \div W) |->
          WaveByte(C29_Sum(SubSeq(means, (j - 1) * W + 1, j * W)), W)]

C29_FreshStep ==
    /\ \A s \in SoundIds :
          (sounds[s].life # "alive" /\ sounds'[s].life = "alive") =>
              /\ sounds[s].life = "free"
              /\ s \notin reader_wave
              /\ sounds'[s].wave = <<>>
              /\ sounds'[s].th = "open"
              /\ ~sounds'[s].stop_wave_calc_signal
    /\ View => reader_wave' = current_sound

C29_OwnBytes ==
    \A s \in SoundIds :
        sounds[s].th \in {"check", "packet"} =>
            sounds[s].wave = C29_WaveOf(sounds[s].file, sounds[s].fpos)

\* C29: a sound that starts gets a buffer nobody holds, empty, with a thread
\* of its own that has not run; while that thread runs the buffer holds
\* exactly the bytes the thread made of the file it reads, so none from the
\* sound before; and the widget is handed the current sound's buffer.
C29_FreshOwnBuffer == [][C29_FreshStep]_vars /\ []C29_OwnBytes

C29_Witness ==
    \E s \in current_sound : \E t \in reader_wave :
        /\ t # s
        /\ ui_pc = "idle"
        /\ sounds[t].life = "dead"
        /\ Len(sounds[t].wave) = 1
        /\ sounds[s].wave = <<>>
        /\ sounds[s].th = "check"

\* Entry j is the current track and its sound is the current sound.
C30_Playing(j) ==
    /\ current_track_index = {j}
    /\ j < Len(tracklist)
    /\ ui_pc = "idle"
    /\ \E s \in current_sound :
          sounds[s].life = "alive" /\ sounds[s].path = TrackAt(tracklist, j)

\* The tick has moved the current track on from entry i.
C30_MovedOnFrom(i) ==
    /\ Len(tracklist) > 0
    /\ C30_Playing((i + 1) % Len(tracklist))
    /\ last_msg = [msg |-> "RedrawTrackPos", rel |-> "due"]

\* C30: with ticks, clock and threads kept going and no command from the
\* user, a current track i is followed by track (i + 1) mod N with a sound
\* of its own, and so every entry of the tracklist is played again and again.
C30_UnattendedProgress ==
    /\ \A i \in 0..(MaxTracks - 1) :
          (current_track_index = {i}) ~> C30_MovedOnFrom(i)
    /\ \A j \in 0..(MaxTracks - 1) :
          [](current_track_index # {} /\ j < Len(tracklist) => <>C30_Playing(j))

C30_Witness ==
    /\ Len(tracklist) >= 2
    /\ C30_Playing(0)
    /\ last_msg = [msg |-> "RedrawTrackPos", rel |-> "due"]

\* C31 (as claimed): whenever a session is active, current_track_index is
\* present and the tracklist entry at that index has the path the active
\* session was started with.
C31_CurrentEntryIsPlaying ==
    (ui_pc = "idle" /\ current_sound # {}) =>
        /\ current_track_index # {}
        /\ \A c \in current_track_index : \A s \in current_sound :
             /\ c \in Indices(tracklist)
             /\ TrackAt(tracklist, c) = sounds[s].path

\* C32: between handlers the current track index is present exactly when the
\* audio player holds a sound, so a tick that finds an index never evaluates
\* the end-of-track test on the no-sound defaults 0.0 and 0.0.
C32_IndexIffSession ==
    ui_pc = "idle" => (current_track_index # {} <=> current_sound # {})

C32_TickStep ==
    (RedrawTrackPos /\ current_track_index # {}) =>
        /\ current_sound # {}
        /\ \E s \in current_sound :
             /\ CurrentSoundPosition = sounds[s].hpos
             /\ CurrentSoundDuration = sounds[s].duration * 100

C32_IndexPresentIffSession == []C32_IndexIffSession /\ [][C32_TickStep]_vars

\* The current track was deleted from a longer list: index and sound are
\* both gone while entries remain.
C32_Witness ==
    /\ last_msg = [msg |-> "DeleteTrack", rel |-> "eq"]
    /\ ui_pc = "idle"
    /\ tracklist # <<>>
    /\ current_track_index = {}
    /\ current_sound = {}

\* C33: teardown terminates.  A handler that waits in the join of Drop gets
\* past it; a running wave thread can always take its next step (it waits
\* for nothing but the mutex of its own wave, which nobody holds across a
\* step); the stop signal is stored before the wait begins; and the join
\* that returns is the one join of that sound: the sound is not current
\* afterwards and is never joined again.
C33_NeverBlocked ==
    \A s \in SoundIds :
        Running(sounds[s]) =>
            ENABLED (WaveOpen(s) \/ WaveCheckStop(s) \/ WavePacket(s))

C33_SignalBeforeJoin ==
    ui_pc = "join" =>
        \A s \in current_sound : sounds[s].stop_wave_calc_signal

C33_JoinStep ==
    \A s \in current_sound :
        JoinDone =>
            /\ ~Running(sounds[s])
            /\ s \notin current_sound'
            /\ sounds'[s].life # "alive"

C33_TeardownTerminates ==
    /\ (ui_pc = "join") ~> (ui_pc # "join")
    /\ []C33_NeverBlocked
    /\ []C33_SignalBeforeJoin
    /\ [][C33_JoinStep]_vars

\* A restart has got past the join: the widget still holds the wave of the
\* sound that was torn down, and the new sound's thread is decoding a file
\* that fills an averaging window.
C33_Witness ==
    /\ last_msg.msg = "PlayTrackFromStart"
    /\ last_msg.rel = "eq"
    /\ ui_pc = "idle"
    /\ \E s \in current_sound : sounds[s].file \in LongFiles /\ sounds[s].fpos > 0
    /\ \E s \in SoundIds \ current_sound : s \in reader_wave /\ sounds[s].life = "dead"

\* C34: deleting an entry other than the current one leaves the session
\* untouched: the same sound stays current with its handle, its stop signal,
\* its thread and its wave as they were, and the handler does not wait.
C34_DeleteOtherStep ==
    \A k \in Indices(tracklist) :
        (DeleteTrack(k) /\ current_track_index # {k}) =>
            /\ UNCHANGED <<current_sound, sounds>>
            /\ ui_pc' = "idle"
            /\ tracklist' = RemoveAt(tracklist, k)

C34_DeleteOtherKeepsSession == [][C34_DeleteOtherStep]_vars

\* Another entry was deleted while a sound plays and its thread runs.
C34_Witness ==
    /\ last_msg.msg = "DeleteTrack"
    /\ last_msg.rel \in {"lt", "gt"}
    /\ \E s \in current_sound :
         /\ sounds[s].hstate = "Playing"
         /\ Running(sounds[s])
         /\ ~sounds[s].stop_wave_calc_signal

\* C35: PlayPauseTrack(i) with i the current index only toggles the handle of
\* the current sound between paused and playing: no sound is created, the
\* position and the index stay.  With any other i (or no current track) it
\* stores i as the current index and starts a new sound for entry i, playing
\* from position 0; that sound is the current one when the handler ends.
C35_FreshSound(n, path) ==
    /\ sounds[n].life = "free"
    /\ sounds'[n].life = "alive"
    /\ sounds'[n].path = path
    /\ sounds'[n].hstate = "Playing"
    /\ sounds'[n].hpos = 0

C35_PlayPauseStep ==
    \A i \in Indices(tracklist) :
        PlayPauseTrack(i) =>
            IF current_track_index = {i}
            THEN /\ UNCHANGED <<current_track_index, current_sound>>
                 /\ ui_pc' = "idle"
                 /\ \A s \in SoundIds \ current_sound : sounds'[s] = sounds[s]
                 /\ \A s \in current_sound :
                      sounds'[s] =
                          [sounds[s] EXCEPT !.hstate =
                               IF @ = "Paused" THEN "Playing" ELSE "Paused"]
            ELSE /\ current_track_index' = {i}
                 /\ \E n \in SoundIds :
                      /\ C35_FreshSound(n, TrackAt(tracklist, i))
                      /\ IF current_sound = {}
                         THEN current_sound' = {n} /\ ui_pc' = "idle"
                         ELSE ui_pc' = "join" /\ ui_cont'.op = "install"
                              /\ ui_cont'.new = n

C35_InstallStep ==
    (JoinDone /\ ui_cont.op = "install" /\ last_msg.msg = "PlayPauseTrack") =>
        /\ current_sound' = {ui_cont.new}
        /\ ui_pc' = "idle"
        /\ UNCHANGED current_track_index
        /\ \A c \in current_track_index :
             sounds'[ui_cont.new].path = TrackAt(tracklist, c)
        /\ sounds'[ui_cont.new].hstate = "Playing"
        /\ sounds'[ui_cont.new].hpos = 0

C35_PlayPauseSemantics == [][C35_PlayPauseStep /\ C35_InstallStep]_vars

\* The current track was paused part-way through by PlayPauseTrack.
C35_Witness ==
    /\ last_msg = [msg |-> "PlayPauseTrack", rel |-> "eq"]
    /\ \E s \in current_sound : sounds[s].hstate = "Paused" /\ sounds[s].hpos > 0

\* C36: PlayTrackFromStart(i) with i the current index first tears the
\* current sound down (handle stopped, stop signal stored, thread joined,
\* object dropped) and creates no sound until that is done; only then a new
\* sound for the same path is started, playing from 0 with an empty wave, and
\* the index is unchanged.  With any other i it stores i and plays entry i.
C36_RestartBegin ==
    \A i \in Indices(tracklist) :
        (PlayTrackFromStart(i) /\ current_track_index = {i} /\ current_sound # {}) =>
            /\ UNCHANGED <<current_track_index, current_sound>>
            /\ ui_pc' = "join"
            /\ \A s \in current_sound :
                 /\ sounds'[s].hstate = "Stopped"
                 /\ sounds'[s].stop_wave_calc_signal
            /\ \A s \in SoundIds \ current_sound : sounds'[s] = sounds[s]

C36_RestartEnd ==
    (JoinDone /\ last_msg = [msg |-> "PlayTrackFromStart", rel |-> "eq"]) =>
        /\ UNCHANGED <<current_track_index, tracklist>>
        /\ ui_pc' = "idle"
        /\ \A old \in current_sound :
             /\ ~Running(sounds[old])
             /\ sounds'[old].life # "alive"
             /\ old \notin current_sound'
        /\ \E n \in SoundIds :
             /\ current_sound' = {n}
             /\ Alive' = {n}
             /\ sounds[n].life # "alive"
             /\ \A c \in current_track_index :
                  sounds'[n].path = TrackAt(tracklist, c)
             /\ sounds'[n].wave = <<>>
             /\ sounds'[n].hpos = 0
             /\ sounds'[n].hstate = "Playing"
             /\ sounds'[n].th = "open"

C36_PlayOther ==
    \A i \in Indices(tracklist) :
        (PlayTrackFromStart(i) /\ current_track_index # {i}) =>
            /\ current_track_index' = {i}
            /\ \E n \in SoundIds :
                 /\ sounds[n].life = "free"
                 /\ sounds'[n] = [NewSound(TrackAt(tracklist, i)) EXCEPT
                                     !.hrate = sounds'[n].hrate]
                 /\ IF current_sound = {}
                    THEN current_sound' = {n} /\ ui_pc' = "idle"
                    ELSE ui_pc' = "join" /\ ui_cont'.op = "install"
                         /\ ui_cont'.new = n

C36_RestartTearsDownFirst ==
    [][C36_RestartBegin /\ C36_RestartEnd /\ C36_PlayOther]_vars

\* A restart has ended: the widget still holds the non-empty wave of the
\* sound that was torn down, and the current sound's wave is empty.
C36_Witness ==
    /\ last_msg = [msg |-> "PlayTrackFromStart", rel |-> "eq"]
    /\ ui_pc = "idle"
    /\ \E s \in current_sound : sounds[s].wave = <<>>
    /\ \E r \in reader_wave :
         /\ r \notin current_sound
         /\ sounds[r].life = "dead"
         /\ sounds[r].wave # <<>>

\* C37: single-instance hand-off.  While a process holds the port, a process
\* that starts does not become the listener and exits; if it has an argument
\* of fewer than MAX_MESSAGE_SIZE bytes and the OS calls succeed, exactly that
\* argument is sent as one datagram (nothing is sent otherwise).  A tick of
\* the listener takes every waiting datagram, returns the strings that were
\* sent, in order, and imports each of them; with nothing waiting it returns
\* an empty list at once.  A tick can be taken whenever the listener's
\* handler is idle, and every datagram that has reached the socket is
\* returned by a later tick.
C37_Range(seq) == {seq[i] : i \in DOMAIN seq}

C37_StartStep ==
    \A p \in Processes : \A arg \in Args : \A os \in OsOutcomes :
        (StartProcess(p, arg, os) /\ port_owner # {}) =>
            /\ UNCHANGED port_owner
            /\ procs'[p] = "exited"
            /\ \A q \in Processes \ {p} : procs'[q] = procs[q]
            /\ IF arg = {} \/ os # "ok"
               THEN UNCHANGED socket_buf
               ELSE \E path \in arg :
                      IF Len(PathBytes(path)) < MAX_MESSAGE_SIZE
                      THEN socket_buf' = Append(socket_buf, PathBytes(path))
                      ELSE UNCHANGED socket_buf

C37_TickStep ==
    VisualUpdate =>
        /\ last_msg'.paths = socket_buf
        /\ socket_buf' = <<>>
        /\ tracklist' = ImportAll(tracklist, PathsOf(socket_buf))
        /\ ui_pc' = "idle"
        /\ UNCHANGED <<current_track_index, current_sound, sounds, port_owner>>

C37_TickNeverBlocks ==
    (ui_pc = "idle" /\ port_owner # {}) => ENABLED VisualUpdate

C37_Delivered(path) == PathBytes(path) \in C37_Range(socket_buf)

C37_Returned(path) ==
    /\ last_msg.msg = "VisualUpdate"
    /\ PathBytes(path) \in C37_Range(last_msg.paths)

C37_SingleInstanceHandoff ==
    /\ [][C37_StartStep /\ C37_TickStep]_vars
    /\ []C37_TickNeverBlocks
    /\ \A path \in ArgPaths : C37_Delivered(path) ~> C37_Returned(path)

\* Two processes have handed their paths to the listener, and one tick has
\* returned both and imported the one that is an audio file.
C37_Witness ==
    /\ last_msg.msg = "VisualUpdate"
    /\ last_msg.paths = <<PathBytes("long1499"), PathBytes("a.mp3")>>
    /\ tracklist = <<"a.mp3">>
    /\ Cardinality({p \in Processes : procs[p] = "exited"}) = 2

====
